---- MODULE Spec2Model ----
(***************************************************************************)
(* Model of sketchgraphs_models/graph/train/__init__.py: the run driver    *)
(* run(), the training coordinator train() and the learning-rate schedule  *)
(* _lr_schedule().  Every participant of a (possibly distributed) run is a *)
(* process executing run() and then train(); the processes share only the  *)
(* file system.                                                            *)
(***************************************************************************)
EXTENDS Integers, Sequences, FiniteSets, TLC

VARIABLES
    dist_config,     \* per process: None or Some(DistributedContext)
    user_args,       \* the configuration as created from user input
    args,            \* per process: the args dict run() and train() work on
    pc,              \* per process: position in run() / train()
    seeded,          \* per process: None or Some(seed given to the generators)
    datasets,        \* per process: None or Some(result of initialize_datasets)
    output_dir,      \* per process: run()'s local output_dir (None or Some(path))
    fs_dirs,         \* shared file system: directories created, with creator
    fs_files,        \* shared file system: files written, with writer
    ckpt_file,       \* shared file system: None or Some(the stored checkpoint
                     \* file: its canonical path and the state saved in it)
    model,           \* per process: None or Some(model)
    epoch,           \* per process: train()'s local epoch
    global_step,     \* per process: train()'s local global_step
    batch_size,      \* per process: train()'s local batch_size
    opt,             \* per process: None or Some(optimizer)
    scheduler,       \* per process: None or Some(LambdaLR binding)
    tb_writer_main,  \* per process: None or Some(SummaryWriter)
    tb_writer_eval,  \* per process: None or Some(SummaryWriter)
    harness,         \* per process: None or Some(GraphModelHarness)
    calls,           \* per process: number of harness.train_epochs calls made
    error,           \* per process: None or Some(exception that ended the run)
    lr_pc,           \* _lr_schedule: position of the call
    lr_epoch,        \* _lr_schedule: argument epoch
    lr_warmup,       \* _lr_schedule: argument warmup_epochs
    lr_decay,        \* _lr_schedule: argument decay_epochs (None or Some(list))
    lr_result        \* _lr_schedule: None or Some(returned float)

run_vars == <<dist_config, user_args, args, pc, seeded, datasets, output_dir,
              fs_dirs, fs_files, ckpt_file, model, epoch, global_step,
              batch_size, opt, scheduler, tb_writer_main, tb_writer_eval,
              harness, calls, error>>
lr_vars == <<lr_pc, lr_epoch, lr_warmup, lr_decay, lr_result>>
vars == <<run_vars, lr_vars>>

(***************************************************************************)
(* Bounds of the model.                                                    *)
(***************************************************************************)
MaxWorld == 2
MaxPartWorld == 4
MaxEpochs == 2
MaxBatch == 5
MaxStartEpoch == 3
MaxData == 2
MaxLrEpoch == 41
MaxWarmup == 5

(***************************************************************************)
(* Python's None and a present value.                                      *)
(***************************************************************************)
None == <<>>
Some(x) == <<x>>
Get(o) == o[1]

(***************************************************************************)
(* Strings that the code slices or joins are sequences of characters or of *)
(* path components.                                                        *)
(***************************************************************************)
ModulePrefix == <<"m", "o", "d", "u", "l", "e", ".">>
Name_encoder_w == <<"e", "n", "c", "o", "d", "e", "r", ".", "w">>
Name_decoder_w == <<"d", "e", "c", "o", "d", "e", "r", ".", "w">>
Name_edge_b == <<"e", "d", "g", "e", ".", "b">>

\* key[n:] of a Python string
StrFrom(s, n) == SubSeq(s, n + 1, Len(s))

\* new_state_dict[key[7:]]: the slice offset of line 79
PrefixLen == 7

(***************************************************************************)
(* os.path.abspath on POSIX.  A path is the sequence of its components; an *)
(* absolute path starts with the component "/" and is that slash followed  *)
(* by the other components joined by slashes: <<"/", "", "foo">> is        *)
(* "//foo", <<"/", "", "">> is "//", <<"/">> is "/".                       *)
(***************************************************************************)
Cwd == <<"/", "w", "run">>

IsAbs(path) == Len(path) > 0 /\ path[1] = "/"

RECURSIVE NormComps(_, _, _)
NormComps(comps, new_comps, initial_slash) ==
    IF comps = <<>> THEN new_comps
    ELSE LET comp == Head(comps)
             n == Len(new_comps)
         IN  IF comp \in {"", "."}
             THEN NormComps(Tail(comps), new_comps, initial_slash)
             ELSE IF \/ comp # ".."
                     \/ (~initial_slash /\ n = 0)
                     \/ (n > 0 /\ new_comps[n] = "..")
             THEN NormComps(Tail(comps), Append(new_comps, comp), initial_slash)
             ELSE IF n > 0
             THEN NormComps(Tail(comps), SubSeq(new_comps, 1, n - 1), initial_slash)
             ELSE NormComps(Tail(comps), new_comps, initial_slash)

\* posixpath.normpath's initial_slashes: POSIX keeps exactly two leading
\* slashes, three or more count as one.
InitialSlashes(path) ==
    IF ~IsAbs(path) THEN 0
    ELSE IF /\ Len(path) >= 3
            /\ path[2] = ""
            /\ ~(Len(path) >= 4 /\ path[3] = "")
    THEN 2
    ELSE 1

Normpath(path) ==
    LET initial_slashes == InitialSlashes(path)
        comps == IF initial_slashes > 0 THEN Tail(path) ELSE path
        new_comps == NormComps(comps, <<>>, initial_slashes > 0)
    IN  IF initial_slashes = 2
        THEN (IF new_comps = <<>> THEN <<"/", "", "">> ELSE <<"/", "">> \o new_comps)
        ELSE IF initial_slashes = 1 THEN <<"/">> \o new_comps
        ELSE IF new_comps = <<>> THEN <<".">> ELSE new_comps

Abspath(path) == IF IsAbs(path) THEN Normpath(path) ELSE Normpath(Cwd \o path)

\* Faulty variant: model_state is missing from the keys.
_ARGS_PATH_KEYS_NoModelState ==
    <<"output_dir", "dataset_train", "dataset_auxiliary", "dataset_test">>

\* Lines 199-206: these keys are converted to absolute paths on save.
_ARGS_PATH_KEYS ==
    <<"output_dir", "dataset_train", "dataset_auxiliary", "dataset_test", "model_state">>

RECURSIVE ResolvePathKeys(_, _)
ResolvePathKeys(a, keys) ==
    IF keys = <<>> THEN a
    ELSE LET key == Head(keys)
         IN  ResolvePathKeys(
                 IF a[key] # None
                 THEN [a EXCEPT ![key] = Some(Abspath(Get(a[key])))]
                 ELSE a,
                 Tail(keys))

(***************************************************************************)
(* The model object and its checkpoints.  A tensor is its shape and its    *)
(* data; a state_dict is a Python dict, here a function from keys.         *)
(***************************************************************************)
Range(seq) == {seq[i] : i \in 1..Len(seq)}

Tensor(shape, data) == [shape |-> shape, data |-> data]

\* Parameter names of the graph model, in registration order.
ParamNames(readout_edge_features) ==
    <<Name_encoder_w, Name_decoder_w>>
        \o (IF readout_edge_features THEN <<Name_edge_b>> ELSE <<>>)

make_graph_model(hidden_size, readout_edge_features) ==
    [params  |-> [k \in Range(ParamNames(readout_edge_features)) |->
                      Tensor(hidden_size, 0)],
     wrapped |-> FALSE,
     device  |-> <<"cpu">>]

make_model_with_arguments(a) ==
    make_graph_model(a.hidden_size, ~a.disable_edge_features)

\* The checkpoint the harness saves from a model built with (hidden_size,
\* readout_edge_features) whose i-th parameter holds data 10 * base + i:
\* the keys of a wrapped (distributed) model carry the prefix "module.".
SavedCheckpoint(hidden_size, readout_edge_features, wrapped, base, e, g) ==
    LET names == ParamNames(readout_edge_features)
    IN  [model |-> [i \in 1..Len(names) |->
                       <<(IF wrapped THEN ModulePrefix ELSE <<>>) \o names[i],
                         Tensor(hidden_size, 10 * base + i)>>],
         epoch |-> e,
         global_step |-> g]

\* d[k] = v of a Python dict
DictSet(d, k, v) == [x \in (DOMAIN d) \cup {k} |-> IF x = k THEN v ELSE d[x]]

\* Faulty variant: the slice keeps the dot of "module.".
StripKey_KeepsDot(key) == StrFrom(key, PrefixLen - 1)

\* key[7:] of line 79
StripKey(key) == StrFrom(key, PrefixLen)

\* Lines 77-79: for key in state['model']: new_state_dict[key[7:]] = ...
RECURSIVE StripKeys(_, _)
StripKeys(entries, new_state_dict) ==
    IF entries = <<>> THEN new_state_dict
    ELSE LET key == Head(entries)[1]
             value == Head(entries)[2]
         IN  StripKeys(Tail(entries),
                       DictSet(new_state_dict, StripKey(key), value))

\* model.load_state_dict(sd) is strict: the keys and the shapes must be the
\* model's own, else it raises.
LoadAccepts(m, sd) ==
    /\ DOMAIN sd = DOMAIN m.params
    /\ \A k \in DOMAIN sd : sd[k].shape = m.params[k].shape

\* model.load_state_dict(sd) copies every entry whose key and shape are the
\* model's own into the parameters, and only then raises for the others.
LoadStateDict(m, sd) ==
    [m EXCEPT !.params =
        [k \in DOMAIN m.params |->
            IF k \in DOMAIN sd /\ sd[k].shape = m.params[k].shape
            THEN sd[k] ELSE m.params[k]]]

\* The truth value of an optional string: None and '' are false.
Truthy(o) == o # None /\ Get(o) # <<>>

(***************************************************************************)
(* Collaborators of train() and run().                                     *)
(***************************************************************************)
\* Optimisation steps the harness takes per epoch.
StepsPerEpoch == 50

\* distributed_utils.is_leader
is_leader(dc) == dc = None \/ Get(dc).global_rank = 0

\* initialize_datasets: the evaluation loader exists iff a test set is given.
initialize_datasets(a, dc) ==
    [dl_test |-> a.dataset_test # None, batches_per_epoch |-> StepsPerEpoch]

\* GraphModelHarness.train_epochs: one epoch, batches_per_epoch steps.
train_epochs(h, e, g) == <<e + 1, g + h.train.batches_per_epoch>>

_opt_factories ==
    [sgd |-> "SGD", adam |-> "Adam", adamax |-> "Adamax", rms |-> "RMSprop"]

\* Faulty variant: an unknown name falls back to a default optimizer.
LookupOptimizer_Fallback(name) ==
    IF name \in DOMAIN _opt_factories THEN Some(_opt_factories[name])
    ELSE Some(_opt_factories["adam"])

\* _opt_factories[name]: None stands for the KeyError of a missing name.
LookupOptimizer(name) ==
    IF name \in DOMAIN _opt_factories THEN Some(_opt_factories[name]) ELSE None

\* lr=args['learning_rate'] * 16
LrScale == 16
\* functools.partial(_lr_schedule, warmup_epochs=5, decay_epochs=[20, 40])
BoundWarmup == 5
BoundDecay == <<20, 40>>

TrainingConfig(dataloader, tb_writer, device, bs, batches) ==
    [dataloader |-> dataloader, tb_writer |-> tb_writer, device |-> device,
     batch_size |-> bs, batches_per_epoch |-> batches]

\* '{}/{}/time_{}'.format(args['output_dir'], strftime('%m%d'), strftime('%H%M%S'))
FormatOutputDir(root) ==
    IF root = <<"/">> THEN <<"/", "", "MMDD", "time_HHMMSS">>
    ELSE IF root = <<>> THEN <<"/", "MMDD", "time_HHMMSS">>
    ELSE root \o <<"MMDD", "time_HHMMSS">>

Procs == DOMAIN pc

(***************************************************************************)
(* run(): lines 209-247.                                                   *)
(***************************************************************************)
Goto(p, label) == pc' = [pc EXCEPT ![p] = label]

Raise(p, exc) ==
    /\ error' = [error EXCEPT ![p] = Some(exc)]
    /\ pc' = [pc EXCEPT ![p] = "error"]

\* Lines 213-218: seed the generators, make the path-valued options absolute.
RunResolvePaths(p) ==
    /\ pc[p] = "run_start"
    /\ seeded' = [seeded EXCEPT ![p] = Some(args[p].seed)]
    /\ args' = [args EXCEPT ![p] = ResolvePathKeys(args[p], _ARGS_PATH_KEYS)]
    /\ Goto(p, "run_datasets")
    /\ UNCHANGED <<dist_config, user_args, datasets, output_dir, fs_dirs, fs_files,
                   ckpt_file, model, epoch, global_step, batch_size, opt, scheduler,
                   tb_writer_main, tb_writer_eval, harness, calls, error, lr_vars>>

\* Lines 220-223.
RunInitDatasets(p) ==
    /\ pc[p] = "run_datasets"
    /\ datasets' = [datasets EXCEPT
                       ![p] = Some(initialize_datasets(args[p], dist_config[p]))]
    /\ Goto(p, "run_output")
    /\ UNCHANGED <<dist_config, user_args, args, seeded, output_dir, fs_dirs, fs_files,
                   ckpt_file, model, epoch, global_step, batch_size, opt, scheduler,
                   tb_writer_main, tb_writer_eval, harness, calls, error, lr_vars>>

\* Line 226: whether this participant derives and creates the output directory.
DerivesOutputDir(dc) == is_leader(dc)

\* Faulty variant: the file is written but never closed.
DumpArgs_LeftOpen(dir, a, p) ==
    [path |-> dir \o <<"args.txt">>, content |-> a, closed |-> FALSE, by |-> p]

\* Lines 233-234: with open(.../args.txt, 'w') as file_: json.dump(args, file_)
DumpArgs(dir, a, p) ==
    [path |-> dir \o <<"args.txt">>, content |-> a, closed |-> TRUE, by |-> p]

(***************************************************************************)
(* The file system under os.makedirs, open and torch.load.  fs_dirs and    *)
(* fs_files record the paths as the code spelled them; the file system     *)
(* itself knows a directory or a file by its canonical path, whatever the  *)
(* spelling: any number of leading slashes is the root, empty and "."      *)
(* components stay in place, ".." goes to the parent, a relative path      *)
(* starts at the current directory.                                        *)
(***************************************************************************)
\* The canonical path of a path whose directories exist.
Canon(path) ==
    <<"/">> \o NormComps(IF IsAbs(path) THEN Tail(path) ELSE Tail(Cwd) \o path,
                         <<>>, TRUE)

\* A checkpoint file: where it is stored and the state saved in it.
StoredAt(path, state) == Some([path |-> Canon(path), state |-> state])

\* The directories: the current directory and those above it, the
\* directories created and those above them, the directories above the
\* stored checkpoint.
FsDirs ==
    {SubSeq(Cwd, 1, i) : i \in 1..Len(Cwd)} \cup
    UNION {LET c == Canon(d.path) IN {SubSeq(c, 1, i) : i \in 1..Len(c)} :
              d \in fs_dirs} \cup
    (IF ckpt_file = None THEN {}
     ELSE {SubSeq(Get(ckpt_file).path, 1, i) :
              i \in 1..(Len(Get(ckpt_file).path) - 1)})

\* The regular files: the records written and the stored checkpoint.
FsFiles ==
    {Canon(f.path) : f \in fs_files} \cup
    (IF ckpt_file = None THEN {} ELSE {Get(ckpt_file).path})

FsParent(cur) == IF Len(cur) <= 1 THEN cur ELSE SubSeq(cur, 1, Len(cur) - 1)

\* Path resolution as the kernel does it, component by component: every
\* component is looked up in a directory that exists.
RECURSIVE FsWalk(_, _, _, _)
FsWalk(comps, cur, dirs, files) ==
    IF comps = <<>> THEN [err |-> None, at |-> cur]
    ELSE IF cur \in files \ dirs
    THEN [err |-> Some("NotADirectoryError"), at |-> cur]
    ELSE IF cur \notin dirs
    THEN [err |-> Some("FileNotFoundError"), at |-> cur]
    ELSE IF Head(comps) \in {"", "."} THEN FsWalk(Tail(comps), cur, dirs, files)
    ELSE IF Head(comps) = ".."
    THEN FsWalk(Tail(comps), FsParent(cur), dirs, files)
    ELSE FsWalk(Tail(comps), Append(cur, Head(comps)), dirs, files)

FsLookup(path) ==
    IF path = <<>> THEN [err |-> Some("FileNotFoundError"), at |-> path]
    ELSE IF IsAbs(path) THEN FsWalk(Tail(path), <<"/">>, FsDirs, FsFiles)
    ELSE FsWalk(path, Cwd, FsDirs, FsFiles)

\* os.path.isdir
IsDir(path) ==
    LET r == FsLookup(path) IN r.err = None /\ r.at \in FsDirs

\* os.makedirs(dir) of line 231, called without exist_ok, on the absolute
\* path run() has formatted: the exception it raises, or None.
MakedirsError(dir) ==
    LET c == Canon(dir)
        dirs == FsDirs
        files == FsFiles
    IN  IF \E i \in 1..(Len(c) - 1) : SubSeq(c, 1, i) \in files \ dirs
        THEN Some("NotADirectoryError")
        ELSE IF c \in dirs \cup files THEN Some("FileExistsError")
        ELSE None

\* os.makedirs(dir): the directories it creates, the missing ones above dir
\* and dir itself, spelled as the prefixes of dir.
Makedirs(dir, p) ==
    LET dirs == FsDirs
    IN  {[path |-> SubSeq(dir, 1, i), by |-> p] :
            i \in {j \in 1..Len(dir) : /\ dir[j] # ""
                                       /\ Canon(SubSeq(dir, 1, j)) \notin dirs}}

\* Lines 225-236: the leader creates the output directory and dumps args.
\* os.makedirs(output_dir) is called without exist_ok: it raises
\* FileExistsError when the directory is there already under any spelling,
\* after output_dir has been assigned and before args.txt is opened.
RunDeriveOutputDir(p) ==
    /\ pc[p] = "run_output"
    /\ IF DerivesOutputDir(dist_config[p])
       THEN LET dir == FormatOutputDir(Get(args[p].output_dir))
                failure == MakedirsError(dir)
            IN  /\ output_dir' = [output_dir EXCEPT ![p] = Some(dir)]
                /\ IF failure # None
                   THEN /\ Raise(p, Get(failure))
                        /\ UNCHANGED <<fs_dirs, fs_files>>
                   ELSE /\ fs_dirs' = fs_dirs \cup Makedirs(dir, p)
                        /\ fs_files' = fs_files \cup {DumpArgs(dir, args[p], p)}
                        /\ Goto(p, "train_build")
                        /\ UNCHANGED error
       ELSE /\ output_dir' = [output_dir EXCEPT ![p] = None]
            /\ Goto(p, "train_build")
            /\ UNCHANGED <<fs_dirs, fs_files, error>>
    /\ UNCHANGED <<dist_config, user_args, args, seeded, datasets,
                   ckpt_file, model, epoch, global_step, batch_size, opt, scheduler,
                   tb_writer_main, tb_writer_eval, harness, calls, lr_vars>>

\* Lines 246-247: train() has returned.
RunFinish(p) ==
    /\ pc[p] = "run_end"
    /\ Goto(p, "done")
    /\ UNCHANGED <<dist_config, user_args, args, seeded, datasets, output_dir, fs_dirs,
                   fs_files, ckpt_file, model, epoch, global_step, batch_size, opt,
                   scheduler, tb_writer_main, tb_writer_eval, harness, calls, error,
                   lr_vars>>

(***************************************************************************)
(* train(): lines 65-153.                                                  *)
(***************************************************************************)
\* Lines 67-71.
TrainBuildModel(p) ==
    /\ pc[p] = "train_build"
    /\ model' = [model EXCEPT ![p] = Some(make_model_with_arguments(args[p]))]
    /\ Goto(p, "train_resume")
    /\ UNCHANGED <<dist_config, user_args, args, seeded, datasets, output_dir, fs_dirs,
                   fs_files, ckpt_file, epoch, global_step, batch_size, opt,
                   scheduler, tb_writer_main, tb_writer_eval, harness, calls, error,
                   lr_vars>>

\* torch.load(path) of line 74 opens the path it is given: the exception of
\* a path that leads through a file or through nothing, of opening a
\* directory, of unpickling a file that is no checkpoint, of a name that is
\* not there; None when the path names the stored checkpoint.
TorchLoadError(path) ==
    LET r == FsLookup(path)
    IN  IF r.err # None THEN r.err
        ELSE IF r.at \in FsDirs THEN Some("IsADirectoryError")
        ELSE IF ckpt_file # None /\ r.at = Get(ckpt_file).path THEN None
        ELSE IF \E f \in fs_files : Canon(f.path) = r.at
        THEN Some("UnpicklingError")
        ELSE Some("FileNotFoundError")

\* Lines 73-87.  The test of line 73 is the truth value of model_state; a
\* rejected load has copied the matching parameters before it raises.
TrainResume(p) ==
    /\ pc[p] = "train_resume"
    /\ IF Truthy(args[p].model_state)
       THEN LET failure == TorchLoadError(Get(args[p].model_state))
            IN  IF failure # None
            THEN /\ Raise(p, Get(failure))
                 /\ UNCHANGED <<model, epoch, global_step>>
            ELSE LET state == Get(ckpt_file).state
                     new_state_dict == StripKeys(state.model, <<>>)
                 IN  /\ model' = [model EXCEPT
                                     ![p] = Some(LoadStateDict(Get(model[p]),
                                                               new_state_dict))]
                     /\ IF LoadAccepts(Get(model[p]), new_state_dict)
                        THEN /\ epoch' = [epoch EXCEPT ![p] = state.epoch]
                             /\ global_step' = [global_step EXCEPT
                                                   ![p] = state.global_step]
                             /\ Goto(p, "train_device")
                             /\ UNCHANGED error
                        ELSE /\ Raise(p, "RuntimeError")
                             /\ UNCHANGED <<epoch, global_step>>
       ELSE /\ epoch' = [epoch EXCEPT ![p] = 0]
            /\ global_step' = [global_step EXCEPT ![p] = 0]
            /\ Goto(p, "train_device")
            /\ UNCHANGED <<model, error>>
    /\ UNCHANGED <<dist_config, user_args, args, seeded, datasets, output_dir, fs_dirs,
                   fs_files, ckpt_file, batch_size, opt, scheduler, tb_writer_main,
                   tb_writer_eval, harness, calls, lr_vars>>

\* Lines 89-101.
TrainPlaceModel(p) ==
    /\ pc[p] = "train_device"
    /\ model' = [model EXCEPT ![p] =
           IF dist_config[p] # None
           THEN Some([Get(model[p]) EXCEPT
                         !.wrapped = TRUE,
                         !.device = <<"cuda", Get(dist_config[p]).local_rank>>])
           ELSE Some([Get(model[p]) EXCEPT !.device = <<"cuda">>])]
    /\ Goto(p, "train_batch")
    /\ UNCHANGED <<dist_config, user_args, args, seeded, datasets, output_dir, fs_dirs,
                   fs_files, ckpt_file, epoch, global_step, batch_size, opt,
                   scheduler, tb_writer_main, tb_writer_eval, harness, calls, error,
                   lr_vars>>

\* Faulty variant: the total is not divided among the participants.
PartitionBatch_NoDivide(total_batch_size, dc) == total_batch_size

\* Faulty variant: the division rounds up.
PartitionBatch_Ceil(total_batch_size, dc) ==
    IF dc # None
    THEN (total_batch_size + Get(dc).world_size - 1) \div Get(dc).world_size
    ELSE total_batch_size

\* Lines 103-107.
PartitionBatch(total_batch_size, dc) ==
    IF dc # None THEN total_batch_size \div Get(dc).world_size ELSE total_batch_size

TrainBatchSize(p) ==
    /\ pc[p] = "train_batch"
    /\ batch_size' = [batch_size EXCEPT
                         ![p] = PartitionBatch(args[p].batch_size, dist_config[p])]
    /\ Goto(p, "train_opt")
    /\ UNCHANGED <<dist_config, user_args, args, seeded, datasets, output_dir, fs_dirs,
                   fs_files, ckpt_file, model, epoch, global_step, opt, scheduler,
                   tb_writer_main, tb_writer_eval, harness, calls, error, lr_vars>>

\* Lines 109-111: an unknown optimizer name raises KeyError.
TrainBindOptimizer(p) ==
    /\ pc[p] = "train_opt"
    /\ IF LookupOptimizer(args[p].optimizer) # None
       THEN /\ opt' = [opt EXCEPT ![p] =
                   Some([kind |-> Get(LookupOptimizer(args[p].optimizer)),
                         scale |-> LrScale])]
            /\ scheduler' = [scheduler EXCEPT ![p] =
                   Some([warmup_epochs |-> BoundWarmup, decay_epochs |-> BoundDecay])]
            /\ Goto(p, "train_writers")
            /\ UNCHANGED error
       ELSE /\ Raise(p, "KeyError")
            /\ UNCHANGED <<opt, scheduler>>
    /\ UNCHANGED <<dist_config, user_args, args, seeded, datasets, output_dir, fs_dirs,
                   fs_files, ckpt_file, model, epoch, global_step, batch_size,
                   tb_writer_main, tb_writer_eval, harness, calls, lr_vars>>

\* Faulty variant: leadership decided by the rank on the node.
OpensWriters_LocalRank(dc) == dc = None \/ Get(dc).local_rank = 0

\* Line 113: whether this participant opens the metric writers.
OpensWriters(dc) == is_leader(dc)

\* Lines 113-117.  SummaryWriter(None) logs under "runs"; None + '/eval/'
\* raises TypeError.
TrainOpenWriters(p) ==
    /\ pc[p] = "train_writers"
    /\ IF OpensWriters(dist_config[p])
       THEN IF output_dir[p] # None
            THEN /\ tb_writer_main' = [tb_writer_main EXCEPT
                                          ![p] = Some(Get(output_dir[p]))]
                 /\ tb_writer_eval' = [tb_writer_eval EXCEPT
                                          ![p] = Some(Get(output_dir[p]) \o <<"eval">>)]
                 /\ Goto(p, "train_harness")
                 /\ UNCHANGED error
            ELSE /\ tb_writer_main' = [tb_writer_main EXCEPT ![p] = Some(<<"runs">>)]
                 /\ Raise(p, "TypeError")
                 /\ UNCHANGED tb_writer_eval
       ELSE /\ tb_writer_main' = [tb_writer_main EXCEPT ![p] = None]
            /\ tb_writer_eval' = [tb_writer_eval EXCEPT ![p] = None]
            /\ Goto(p, "train_harness")
            /\ UNCHANGED error
    /\ UNCHANGED <<dist_config, user_args, args, seeded, datasets, output_dir, fs_dirs,
                   fs_files, ckpt_file, model, epoch, global_step, batch_size, opt,
                   scheduler, harness, calls, lr_vars>>

\* Lines 119-148.
TrainMakeHarness(p) ==
    /\ pc[p] = "train_harness"
    /\ harness' = [harness EXCEPT ![p] = Some(
           [train |-> TrainingConfig("dataloader_train", tb_writer_main[p],
                                     Get(model[p]).device, batch_size[p],
                                     Get(datasets[p]).batches_per_epoch),
            eval |-> IF Get(datasets[p]).dl_test
                     THEN Some(TrainingConfig("dataloader_eval", tb_writer_eval[p],
                                              Get(model[p]).device, batch_size[p],
                                              None))
                     ELSE None,
            output_dir |-> output_dir[p],
            dist_config |-> dist_config[p]])]
    /\ Goto(p, "train_loop")
    /\ UNCHANGED <<dist_config, user_args, args, seeded, datasets, output_dir, fs_dirs,
                   fs_files, ckpt_file, model, epoch, global_step, batch_size, opt,
                   scheduler, tb_writer_main, tb_writer_eval, calls, error, lr_vars>>

\* Faulty variant: the loop runs one epoch too many.
LoopCondition_Inclusive(e, num_epochs) == e <= num_epochs

\* Line 150: while epoch < args['num_epochs']
LoopCondition(e, num_epochs) == e < num_epochs

\* Lines 150-151: one iteration of the epoch loop, the harness returning.
TrainEpoch(p) ==
    /\ pc[p] = "train_loop"
    /\ LoopCondition(epoch[p], args[p].num_epochs)
    /\ LET r == train_epochs(Get(harness[p]), epoch[p], global_step[p])
       IN  /\ epoch' = [epoch EXCEPT ![p] = r[1]]
           /\ global_step' = [global_step EXCEPT ![p] = r[2]]
    /\ calls' = [calls EXCEPT ![p] = @ + 1]
    /\ UNCHANGED <<dist_config, user_args, args, pc, seeded, datasets, output_dir,
                   fs_dirs, fs_files, ckpt_file, model, batch_size, opt, scheduler,
                   tb_writer_main, tb_writer_eval, harness, error, lr_vars>>

\* Lines 150-151: one iteration of the epoch loop, the harness raising.
TrainEpochRaises(p) ==
    /\ pc[p] = "train_loop"
    /\ LoopCondition(epoch[p], args[p].num_epochs)
    /\ calls' = [calls EXCEPT ![p] = @ + 1]
    /\ Raise(p, "HarnessError")
    /\ UNCHANGED <<dist_config, user_args, args, seeded, datasets, output_dir,
                   fs_dirs, fs_files, ckpt_file, model, epoch, global_step, batch_size,
                   opt, scheduler, tb_writer_main, tb_writer_eval, harness, lr_vars>>

\* Lines 150 and 153: the loop condition fails, train() returns the model.
TrainReturn(p) ==
    /\ pc[p] = "train_loop"
    /\ ~LoopCondition(epoch[p], args[p].num_epochs)
    /\ Goto(p, "run_end")
    /\ UNCHANGED <<dist_config, user_args, args, seeded, datasets, output_dir, fs_dirs,
                   fs_files, ckpt_file, model, epoch, global_step, batch_size, opt,
                   scheduler, tb_writer_main, tb_writer_eval, harness, calls, error,
                   lr_vars>>

(***************************************************************************)
(* Python floats (IEEE 754 binary64) with round-to-nearest-even.  A        *)
(* natural number wider than the checker's integers is the little-endian   *)
(* sequence of its limbs in base 2^15; a float is [m, e] with value        *)
(* m * 2^e and 2^52 <= m < 2^53.                                            *)
(***************************************************************************)
LimbBits == 15
LimbBase == 2 ^ LimbBits
MantissaBits == 53

RECURSIVE BigTrim(_)
BigTrim(n) ==
    IF n # <<>> /\ n[Len(n)] = 0 THEN BigTrim(SubSeq(n, 1, Len(n) - 1)) ELSE n

RECURSIVE BigFromInt(_)
BigFromInt(x) ==
    IF x = 0 THEN <<>> ELSE <<x % LimbBase>> \o BigFromInt(x \div LimbBase)

RECURSIVE BigMulSmall(_, _, _)
BigMulSmall(n, d, carry) ==
    IF n = <<>> THEN (IF carry = 0 THEN <<>> ELSE <<carry>>)
    ELSE LET t == Head(n) * d + carry
         IN  <<t % LimbBase>> \o BigMulSmall(Tail(n), d, t \div LimbBase)

RECURSIVE BigAdd(_, _, _)
BigAdd(a, b, carry) ==
    IF a = <<>> /\ b = <<>> THEN (IF carry = 0 THEN <<>> ELSE <<carry>>)
    ELSE LET x == IF a = <<>> THEN 0 ELSE Head(a)
             y == IF b = <<>> THEN 0 ELSE Head(b)
             t == x + y + carry
         IN  <<t % LimbBase>> \o
                 BigAdd(IF a = <<>> THEN a ELSE Tail(a),
                        IF b = <<>> THEN b ELSE Tail(b), t \div LimbBase)

RECURSIVE BigMul(_, _)
BigMul(a, b) ==
    IF b = <<>> THEN <<>>
    ELSE BigTrim(BigAdd(BigMulSmall(a, Head(b), 0), <<0>> \o BigMul(a, Tail(b)), 0))

RECURSIVE BigPow(_, _)
BigPow(a, k) == IF k = 0 THEN <<1>> ELSE BigMul(a, BigPow(a, k - 1))

\* Quotient and remainder of n by a small d, most significant limb first.
RECURSIVE BigDivSmall(_, _)
BigDivSmall(n, d) ==
    IF n = <<>> THEN [q |-> <<>>, r |-> 0]
    ELSE LET hi == BigDivSmall(Tail(n), d)
             t == hi.r * LimbBase + Head(n)
         IN  [q |-> <<t \div d>> \o hi.q, r |-> t % d]

RECURSIVE IntBitLen(_)
IntBitLen(x) == IF x = 0 THEN 0 ELSE 1 + IntBitLen(x \div 2)

BigBitLen(n) ==
    IF n = <<>> THEN 0 ELSE (Len(n) - 1) * LimbBits + IntBitLen(n[Len(n)])

Zeros(k) == [i \in 1..k |-> 0]

BigShl(n, s) ==
    Zeros(s \div LimbBits) \o BigMulSmall(n, 2 ^ (s % LimbBits), 0)

BigShr(n, s) ==
    BigTrim(BigDivSmall(SubSeq(n, (s \div LimbBits) + 1, Len(n)),
                        2 ^ (s % LimbBits)).q)

BigBit(n, i) ==
    IF i \div LimbBits + 1 > Len(n) THEN 0
    ELSE (n[i \div LimbBits + 1] \div (2 ^ (i % LimbBits))) % 2

\* Whether any of the bits 0 .. i-1 of n is set.
BigLowNonzero(n, i) ==
    \/ \E j \in 1..(i \div LimbBits) : j <= Len(n) /\ n[j] # 0
    \/ /\ i \div LimbBits + 1 <= Len(n)
       /\ n[i \div LimbBits + 1] % (2 ^ (i % LimbBits)) # 0

\* The float nearest to (n + f) * 2^e, where 0 <= f < 1 and sticky says f > 0;
\* ties go to the even mantissa.
RoundFloat(n, e, sticky) ==
    LET s == BigBitLen(n) - MantissaBits
    IN  IF s <= 0 THEN [m |-> BigShl(n, -s), e |-> e + s]
        ELSE LET m0 == BigShr(n, s)
                 half == BigBit(n, s - 1) = 1
                 low == sticky \/ BigLowNonzero(n, s - 1)
                 up == half /\ (low \/ BigBit(m0, 0) = 1)
                 m1 == IF up THEN BigTrim(BigAdd(m0, <<1>>, 0)) ELSE m0
             IN  IF BigBitLen(m1) > MantissaBits
                 THEN [m |-> BigShr(m1, 1), e |-> e + s + 1]
                 ELSE [m |-> m1, e |-> e + s]

\* float(x) of a small non-negative Python int
FloatFromInt(x) == RoundFloat(BigFromInt(x), 0, FALSE)

\* a / b of two positive Python ints
DivShift == 75
IntTrueDiv(a, b) ==
    LET d == BigDivSmall(BigShl(BigFromInt(a), DivShift), b)
    IN  RoundFloat(BigTrim(d.q), -DivShift, d.r # 0)

FloatMul(x, y) == RoundFloat(BigMul(x.m, y.m), x.e + y.e, FALSE)

\* x ** k for a float x and a Python int k >= 0
FloatPow(x, k) ==
    IF k = 0 THEN FloatFromInt(1) ELSE RoundFloat(BigPow(x.m, k), k * x.e, FALSE)

RECURSIVE BigLess(_, _)
BigLess(a, b) ==
    IF Len(a) # Len(b) THEN Len(a) < Len(b)
    ELSE IF a = <<>> THEN FALSE
    ELSE IF a[Len(a)] # b[Len(b)] THEN a[Len(a)] < b[Len(b)]
    ELSE BigLess(SubSeq(a, 1, Len(a) - 1), SubSeq(b, 1, Len(b) - 1))

\* x < y for positive floats
FloatLess(x, y) == x.e < y.e \/ (x.e = y.e /\ BigLess(x.m, y.m))
FloatLeq(x, y) == x = y \/ FloatLess(x, y)

\* The literal 0.1 of line 36
Float_0_1 == IntTrueDiv(1, 10)

(***************************************************************************)
(* _lr_schedule: lines 31-38.                                              *)
(***************************************************************************)
\* bisect.bisect_right(a, x)
RECURSIVE BisectRight(_, _, _, _)
BisectRight(a, x, lo, hi) ==
    IF lo < hi
    THEN LET mid == (lo + hi) \div 2
         IN  IF x < a[mid + 1] THEN BisectRight(a, x, lo, mid)
             ELSE BisectRight(a, x, mid + 1, hi)
    ELSE lo

\* Faulty variant: bisect_left, a threshold equal to the epoch does not count.
bisect_left(a, x) == BisectRight(a, x - 1, 0, Len(a))

bisect_right(a, x) == BisectRight(a, x, 0, Len(a))

\* min((epoch + 1) / warmup_epochs, 1)
WarmupFactor(e, warmup_epochs) ==
    LET ramp == IntTrueDiv(e + 1, warmup_epochs)
    IN  IF FloatLess(FloatFromInt(1), ramp) THEN FloatFromInt(1) ELSE ramp

\* 0.1 ** bisect.bisect_right(decay_epochs, epoch)
DecayFactor(e, decay_epochs) == FloatPow(Float_0_1, bisect_right(decay_epochs, e))

_lr_schedule(e, warmup_epochs, decay_epochs) ==
    LET decay == IF decay_epochs = None THEN <<>> ELSE Get(decay_epochs)
    IN  FloatMul(WarmupFactor(e, warmup_epochs), DecayFactor(e, decay))

(***************************************************************************)
(* Inputs.                                                                 *)
(***************************************************************************)
\* The participants of a run over world_size processes, gpus_per_node on
\* each node; a process is named by its global rank.
World(world_size, gpus_per_node) ==
    [p \in 0..(world_size - 1) |->
        Some([world_size |-> world_size,
              local_rank |-> p % gpus_per_node,
              global_rank |-> p])]

\* run(args) without a distributed_config
SingleProcess == [p \in {0} |-> None]

\* One participant of World(world_size, gpus_per_node) taken alone.
Participant(world_size, gpus_per_node, rank) ==
    [p \in {rank} |-> World(world_size, gpus_per_node)[rank]]

Worlds(max_world) ==
    {SingleProcess} \cup
    {World(w, g) : <<w, g>> \in {x \in (1..max_world) \X (1..max_world) :
                                    x[1] % x[2] = 0}}

\* vars(args) of the parsed command line; the options this module never
\* reads are left out.
ArgsRecord(out, test, state, bs, optimizer, hidden, no_edge, n) ==
    [output_dir |-> out,
     dataset_train |-> Some(<<"data", "train.npy">>),
     dataset_auxiliary |-> None,
     dataset_test |-> test,
     model_state |-> state,
     batch_size |-> bs,
     optimizer |-> optimizer,
     hidden_size |-> hidden,
     disable_edge_features |-> no_edge,
     num_epochs |-> n,
     seed |-> 7]

\* --output_dir default '../output', --hidden_size default 384
DefaultOutputDir == Some(<<"..", "output">>)
DefaultHidden == 384
\* --batch_size default 2048
DefaultBatch == 2048
CheckpointPath == Some(<<"ckpt", "..", "model.pth">>)

\* The directory a run started earlier in the same second with the same
\* --output_dir has created; it belongs to no participant of this run.
PriorDir(out) == [path |-> FormatOutputDir(Abspath(Get(out))), by |-> -1]

InitState(dcs, a, ck, dirs, start, out, ds) ==
    /\ dist_config = dcs
    /\ user_args = a
    /\ args = [p \in DOMAIN dcs |-> a]
    /\ pc = [p \in DOMAIN dcs |-> start]
    /\ seeded = [p \in DOMAIN dcs |-> None]
    /\ datasets = ds
    /\ output_dir = [p \in DOMAIN dcs |-> out]
    /\ fs_dirs = dirs
    /\ fs_files = {}
    /\ ckpt_file = ck
    /\ model = [p \in DOMAIN dcs |-> None]
    /\ epoch = [p \in DOMAIN dcs |-> 0]
    /\ global_step = [p \in DOMAIN dcs |-> 0]
    /\ batch_size = [p \in DOMAIN dcs |-> 0]
    /\ opt = [p \in DOMAIN dcs |-> None]
    /\ scheduler = [p \in DOMAIN dcs |-> None]
    /\ tb_writer_main = [p \in DOMAIN dcs |-> None]
    /\ tb_writer_eval = [p \in DOMAIN dcs |-> None]
    /\ harness = [p \in DOMAIN dcs |-> None]
    /\ calls = [p \in DOMAIN dcs |-> 0]
    /\ error = [p \in DOMAIN dcs |-> None]

\* run(args, distributed_config) is entered by every participant.
InitRun(dcs, a, ck, dirs) ==
    InitState(dcs, a, ck, dirs, "run_start", None, [p \in DOMAIN dcs |-> None])

\* train(..., args, output_dir, dataloader_eval, batches_per_epoch, dist_config)
\* is entered directly, with the caller's loaders and output directory.
InitTrain(dcs, a, ck, out) ==
    InitState(dcs, a, ck, {[path |-> Get(out), by |-> -1]}, "train_build", out,
              [p \in DOMAIN dcs |-> Some(initialize_datasets(a, dcs[p]))])

LrIdle ==
    /\ lr_pc = "idle"
    /\ lr_epoch = 0
    /\ lr_warmup = 1
    /\ lr_decay = None
    /\ lr_result = None

\* The output root under another spelling than the one given to this run.
OtherSpelling(out) ==
    IF out = DefaultOutputDir THEN <<"/", "w", "output">> ELSE <<"/", "out">>

\* Where the checkpoint to resume from lies: in the current directory, in
\* the output root, or in the timestamped directory of the earlier run.
CheckpointIn(where, out) ==
    IF where = "cwd" THEN Get(CheckpointPath)
    ELSE IF where = "root" THEN OtherSpelling(out) \o <<"model.pth">>
    ELSE FormatOutputDir(OtherSpelling(out)) \o <<"model.pth">>

\* A run of all the participants of a world, with or without a checkpoint
\* saved by an earlier distributed run (with an unprefixed one in the current
\* directory, or with a model_state that names no file next to it), into an
\* output root where the timestamped directory is new, has been created by an
\* earlier run that was given the same root under another spelling, or is
\* there because the checkpoint lies in it.  run() is entered with the
\* caller's record: the optimizer name is one of _opt_factories or not (the
\* parser of main() would refuse an unknown one, a caller of run() need not).
Init ==
    /\ LrIdle
    /\ \E dcs \in Worlds(MaxWorld),
          out \in {DefaultOutputDir, Some(<<"/", "", "out">>)},
          test \in {Some(<<"/", "data", ".", "test.npy">>)},
          optimizer \in {"adam", "lbfgs"},
          n \in 0..MaxEpochs,
          resume \in {<<"no", "cwd">>, <<"wrapped", "cwd">>, <<"unwrapped", "cwd">>,
                      <<"missing", "cwd">>, <<"wrapped", "root">>,
                      <<"wrapped", "earlier">>},
          prior \in BOOLEAN :
             InitRun(dcs,
                     ArgsRecord(out, test,
                                IF resume[1] = "no" THEN None
                                ELSE IF resume[1] = "missing"
                                THEN Some(<<"other.pth">>)
                                ELSE Some(CheckpointIn(resume[2], out)),
                                MaxBatch, optimizer, DefaultHidden, FALSE, n),
                     IF resume[1] = "no" THEN None
                     ELSE StoredAt(CheckpointIn(resume[2], out),
                                   SavedCheckpoint(DefaultHidden, TRUE,
                                                   resume[1] # "unwrapped",
                                                   1, 1, StepsPerEpoch)),
                     IF prior THEN {PriorDir(Some(OtherSpelling(out)))} ELSE {})

Next ==
    \/ \E p \in Procs : RunResolvePaths(p)
    \/ \E p \in Procs : RunInitDatasets(p)
    \/ \E p \in Procs : RunDeriveOutputDir(p)
    \/ \E p \in Procs : TrainBuildModel(p)
    \/ \E p \in Procs : TrainResume(p)
    \/ \E p \in Procs : TrainPlaceModel(p)
    \/ \E p \in Procs : TrainBatchSize(p)
    \/ \E p \in Procs : TrainBindOptimizer(p)
    \/ \E p \in Procs : TrainOpenWriters(p)
    \/ \E p \in Procs : TrainMakeHarness(p)
    \/ \E p \in Procs : TrainEpoch(p)
    \/ \E p \in Procs : TrainEpochRaises(p)
    \/ \E p \in Procs : TrainReturn(p)
    \/ \E p \in Procs : RunFinish(p)

Spec == Init /\ [][Next]_vars

\* One participant of a distributed run, or a single process, over the
\* batch sizes; no checkpoint.
InitPartition ==
    /\ LrIdle
    /\ \E dcs \in {SingleProcess} \cup
                  {Participant(w, w, r) : <<w, r>> \in
                      {x \in (1..MaxPartWorld) \X (0..(MaxPartWorld - 1)) : x[2] < x[1]}},
          bs \in (0..MaxBatch) \cup {DefaultBatch},
          test \in {None, Some(<<"data", "test.npy">>)},
          optimizer \in {"sgd", "lbfgs"} :
          InitRun(dcs,
                  ArgsRecord(DefaultOutputDir, test, None, bs, optimizer,
                             DefaultHidden, FALSE, 1),
                  None, {})

SpecPartition == InitPartition /\ [][Next]_vars

\* A single process (with or without a one-process distributed context)
\* resuming from the checkpoints an earlier run may have saved: run() with
\* no --model_state, with an empty one, with one that names no file, with
\* one that names the output root, with one that names a checkpoint in the
\* current directory, in the output root or in the timestamped directory,
\* with one that names another file than the stored checkpoint or leads
\* through it, with one that names the record this run writes; train() called with an empty model_state, with the current
\* directory, with the checkpoint's name and with a spelling of it that
\* leads through a directory that is not there.
InitResume ==
    /\ LrIdle
    /\ \E dcs \in Worlds(1),
          hidden \in {1, 2},
          no_edge \in BOOLEAN,
          n \in 0..(MaxEpochs + 1) :
          \/ \E state \in {None, Some(<<>>), CheckpointPath, DefaultOutputDir} :
                InitRun(dcs,
                        ArgsRecord(DefaultOutputDir, None, state, MaxBatch, "adam",
                                   hidden, no_edge, n),
                        None, {})
          \/ \E state \in {None, Some(<<>>), Some(<<".">>)} :
                InitTrain(dcs,
                          ArgsRecord(Some(<<"/", "out">>), None, state, MaxBatch,
                                     "adam", hidden, no_edge, n),
                          None, Some(<<"/", "out", "MMDD", "time_HHMMSS">>))
          \/ \E state \in {CheckpointPath, Some(<<"model.pth">>)} :
                InitTrain(dcs,
                          ArgsRecord(Some(<<"/", "out">>), None, state, MaxBatch,
                                     "adam", hidden, no_edge, n),
                          StoredAt(Get(CheckpointPath),
                                   SavedCheckpoint(hidden, ~no_edge, TRUE, 1, 1,
                                                   StepsPerEpoch)),
                          Some(<<"/", "out", "MMDD", "time_HHMMSS">>))
          \/ \E state \in {Some(CheckpointIn("root", DefaultOutputDir)),
                            Some(<<"..", "output", "model.pth">>),
                            Some(CheckpointIn("earlier", DefaultOutputDir))} :
                InitRun(dcs,
                        ArgsRecord(DefaultOutputDir, None, state, MaxBatch, "adam",
                                   hidden, no_edge, n),
                        StoredAt(Get(state),
                                 SavedCheckpoint(hidden, ~no_edge, TRUE, 1, 1,
                                                 StepsPerEpoch)),
                        {})
          \/ \E state \in {Some(<<"other.pth">>),
                            Some(<<"model.pth", "best.pth">>)} :
                InitRun(dcs,
                        ArgsRecord(DefaultOutputDir, None, state, MaxBatch, "adam",
                                   hidden, no_edge, n),
                        StoredAt(Get(CheckpointPath),
                                 SavedCheckpoint(hidden, ~no_edge, TRUE, 1, 1,
                                                 StepsPerEpoch)),
                        {})
          \/ \E state \in {Some(FormatOutputDir(OtherSpelling(DefaultOutputDir))
                                 \o <<"args.txt">>)} :
                InitRun(dcs,
                        ArgsRecord(DefaultOutputDir, None, state, MaxBatch, "adam",
                                   hidden, no_edge, n),
                        None, {})
          \/ \E ck_hidden \in {1, 2},
                ck_edge \in BOOLEAN,
                wrapped \in BOOLEAN,
                base \in 1..MaxData,
                e \in 0..MaxStartEpoch :
                InitRun(dcs,
                        ArgsRecord(DefaultOutputDir, None, CheckpointPath, MaxBatch,
                                   "adam", hidden, no_edge, n),
                        StoredAt(Get(CheckpointPath),
                                 SavedCheckpoint(ck_hidden, ck_edge, wrapped, base, e,
                                                 StepsPerEpoch * e)),
                        {})

SpecResume == InitResume /\ [][Next]_vars

(***************************************************************************)
(* The learning-rate schedule called on its own, as the scheduler calls it *)
(* at every epoch boundary.                                                *)
(***************************************************************************)
DecayInputs ==
    {None, Some(<<>>), Some(BoundDecay), Some(<<0>>), Some(<<1, 3>>),
     Some(<<2, 2, 4>>), Some(<<3, 1>>)}

InitLR ==
    /\ InitRun(<<>>, ArgsRecord(DefaultOutputDir, None, None, DefaultBatch, "adam",
                                DefaultHidden, FALSE, 0), None, {})
    /\ lr_pc = "call"
    /\ lr_epoch \in 0..MaxLrEpoch
    /\ lr_warmup \in 1..MaxWarmup
    /\ lr_decay \in DecayInputs
    /\ lr_result = None

Call_lr_schedule ==
    /\ lr_pc = "call"
    /\ lr_result' = Some(_lr_schedule(lr_epoch, lr_warmup, lr_decay))
    /\ lr_pc' = "returned"
    /\ UNCHANGED <<lr_epoch, lr_warmup, lr_decay, run_vars>>

\* scheduler.step(): the next epoch's factor is asked for.
SchedulerStep ==
    /\ lr_pc = "returned"
    /\ lr_epoch < MaxLrEpoch
    /\ lr_epoch' = lr_epoch + 1
    /\ lr_pc' = "call"
    /\ lr_result' = None
    /\ UNCHANGED <<lr_warmup, lr_decay, run_vars>>

NextLR == Call_lr_schedule \/ SchedulerStep

SpecLR == InitLR /\ [][NextLR]_vars

(***************************************************************************)
(* Properties.                                                             *)
(***************************************************************************)
Max(a, b) == IF a >= b THEN a ELSE b

\* The stored checkpoint's state.
Stored == Get(ckpt_file).state

\* model_state is given and names the stored checkpoint.
Resumes(p) ==
    /\ Truthy(args[p].model_state)
    /\ ckpt_file # None
    /\ FsLookup(Get(args[p].model_state)) =
           [err |-> None, at |-> Get(ckpt_file).path]

\* The epoch train() starts its loop from: the checkpoint's, or 0.
StartEpoch(p) == IF Resumes(p) THEN Stored.epoch ELSE 0

\* C1: with a harness whose train_epochs returns epoch + 1, a train() that has
\* left its loop has made exactly max(0, N - e0) harness calls and has
\* epoch >= N (epoch = N when e0 <= N); while it is in the loop it has made
\* epoch - e0 calls and never more than max(0, N - e0).
C1_Termination ==
    \A p \in Procs :
        LET N == args[p].num_epochs
            e0 == StartEpoch(p)
        IN  /\ pc[p] = "train_loop" =>
                   /\ calls[p] = epoch[p] - e0
                   /\ calls[p] <= Max(0, N - e0)
            /\ pc[p] \in {"run_end", "done"} =>
                   /\ calls[p] = Max(0, N - e0)
                   /\ epoch[p] >= N
                   /\ epoch[p] = Max(N, e0)
                   /\ model[p] # None

\* C1 witness: started at epoch 0 with num_epochs = 3, the run is over after
\* exactly 3 harness calls, at epoch 3.
C1_Witness ==
    \E p \in Procs :
        /\ pc[p] = "done"
        /\ StartEpoch(p) = 0
        /\ args[p].num_epochs = 3
        /\ calls[p] = 3
        /\ epoch[p] = 3

LeaderRank(p) == dist_config[p] = None \/ Get(dist_config[p]).global_rank = 0

\* C2: a participant has created an output directory, written a configuration
\* record or opened a metric writer only if it is the leader (global_rank = 0
\* or no dist_context); a non-leader has output_dir = None and no writers.
C2_LeaderOnlySideEffects ==
    \A p \in Procs :
        /\ (\E d \in fs_dirs : d.by = p) => LeaderRank(p)
        /\ (\E f \in fs_files : f.by = p) => LeaderRank(p)
        /\ (tb_writer_main[p] # None \/ tb_writer_eval[p] # None) => LeaderRank(p)
        /\ ~LeaderRank(p) =>
               /\ output_dir[p] = None
               /\ tb_writer_main[p] = None
               /\ tb_writer_eval[p] = None
               /\ harness[p] # None =>
                      /\ Get(harness[p]).output_dir = None
                      /\ Get(harness[p]).train.tb_writer = None

\* C2 witness: a non-leader has finished train() with a harness built without
\* output directory and writers, while the leader has written its record.
C2_Witness ==
    \E p \in Procs :
        /\ ~LeaderRank(p)
        /\ Get(dist_config[p]).local_rank = 0
        /\ pc[p] = "done"
        /\ calls[p] > 0
        /\ harness[p] # None
        /\ fs_files # {}

NonDivisible(p) ==
    /\ dist_config[p] # None
    /\ args[p].batch_size % Get(dist_config[p]).world_size # 0

PastBatchStep(p) ==
    pc[p] \in {"train_opt", "train_writers", "train_harness", "train_loop",
               "run_end", "done"}

\* C3 as claimed: with a dist_context and a total batch size that is no multiple
\* of world_size, the run ends in an error before the optimizer is bound and no
\* harness epoch call is made.
C3_Original ==
    \A p \in Procs :
        NonDivisible(p) => (~PastBatchStep(p) /\ calls[p] = 0)

\* C3 amended: a non-divisible total batch size is not rejected: the batch-size
\* step raises nothing (such a run can only end in the KeyError of an unknown
\* optimizer name or in an error of the harness), and the harness is built and
\* called with the truncated size, which leaves total mod world_size samples
\* of every batch out.
C3_NonDivisibleTruncated ==
    \A p \in Procs :
        NonDivisible(p) =>
            LET total == args[p].batch_size
                w == Get(dist_config[p]).world_size
            IN  /\ (PastBatchStep(p) \/ pc[p] = "error") =>
                       /\ batch_size[p] * w < total
                       /\ total - batch_size[p] * w = total % w
                /\ error[p] # None =>
                       \/ Get(error[p]) = "HarnessError" /\ calls[p] > 0
                       \/ Get(error[p]) = "KeyError" /\
                              args[p].optimizer \notin DOMAIN _opt_factories
                /\ calls[p] > 0 => Get(harness[p]).train.batch_size * w < total

\* C3 witness: 2048 over 3 participants trains to the end with batches of 682.
C3_Witness ==
    \E p \in Procs :
        /\ NonDivisible(p)
        /\ args[p].batch_size = 2048
        /\ Get(dist_config[p]).world_size = 3
        /\ pc[p] = "done"
        /\ calls[p] > 0
        /\ Get(harness[p]).train.batch_size = 682

\* floor(total / w), stated by its defining inequalities
IsFloorDiv(q, total, w) == q * w <= total /\ total < (q + 1) * w

\* C4: the batch size handed to the harness is floor(total / world_size) with
\* a dist_context (2048 over 4 gives 512, 2048 over 3 gives 682) and the total
\* itself without one; the evaluation configuration gets the same value.
C4_BatchPartitioning ==
    \A p \in Procs :
        harness[p] # None =>
            LET h == Get(harness[p])
                total == args[p].batch_size
            IN  /\ IF dist_config[p] = None
                   THEN h.train.batch_size = total
                   ELSE IsFloorDiv(h.train.batch_size, total,
                                   Get(dist_config[p]).world_size)
                /\ h.eval # None => Get(h.eval).batch_size = h.train.batch_size
                /\ (dist_config[p] # None /\ total = 2048 /\
                    Get(dist_config[p]).world_size = 4) => h.train.batch_size = 512
                /\ (dist_config[p] # None /\ total = 2048 /\
                    Get(dist_config[p]).world_size = 3) => h.train.batch_size = 682

\* C4 witness: a harness with an evaluation configuration, built for one of 4
\* participants sharing 2048.
C4_Witness ==
    \E p \in Procs :
        /\ harness[p] # None
        /\ dist_config[p] # None
        /\ Get(dist_config[p]).world_size = 4
        /\ args[p].batch_size = 2048
        /\ Get(harness[p]).eval # None
        /\ Get(Get(harness[p]).eval).batch_size = 512

PastResume(p) ==
    pc[p] \in {"train_device", "train_batch", "train_opt", "train_writers",
               "train_harness", "train_loop", "run_end", "done"}

\* The checkpoint was saved from a model of this run's own configuration.
SavedFromSameConfig(p, wrapped) ==
    ckpt_file # None /\ \E base \in 1..MaxData, e \in 0..MaxStartEpoch :
        Stored = SavedCheckpoint(args[p].hidden_size,
                                 ~args[p].disable_edge_features,
                                 wrapped, base, e, StepsPerEpoch * e)

\* C5 as claimed: a checkpoint saved from a model of identical configuration,
\* with prefixed or with unprefixed keys, is resumed without error, the loop
\* starts at the stored (epoch, global_step) with the saved parameter values;
\* without a checkpoint path the loop starts at (0, 0).
C5_RoundTrip ==
    \A p \in Procs :
        /\ (~Truthy(args[p].model_state) /\ pc[p] = "train_device") =>
               (epoch[p] = 0 /\ global_step[p] = 0)
        /\ (Truthy(args[p].model_state) /\
            (SavedFromSameConfig(p, TRUE) \/ SavedFromSameConfig(p, FALSE))) =>
               /\ error[p] # Some("RuntimeError")
               /\ pc[p] = "train_device" =>
                      LET ck == Stored
                          names == ParamNames(~args[p].disable_edge_features)
                      IN  /\ epoch[p] = ck.epoch
                          /\ global_step[p] = ck.global_step
                          /\ \A i \in 1..Len(names) :
                                 Get(model[p]).params[names[i]] = ck.model[i][2]

AllPrefixed(ck) ==
    \A i \in 1..Len(ck.model) :
        /\ Len(ck.model[i][1]) >= Len(ModulePrefix)
        /\ SubSeq(ck.model[i][1], 1, Len(ModulePrefix)) = ModulePrefix

\* A mapping with one entry per checkpoint entry: the key without "module.",
\* the value unchanged.
IsStripped(sd, ck) ==
    /\ Cardinality(DOMAIN sd) = Len(ck.model)
    /\ \A i \in 1..Len(ck.model) :
           \E k \in DOMAIN sd : /\ ModulePrefix \o k = ck.model[i][1]
                                /\ sd[k] = ck.model[i][2]

\* C6: for a checkpoint whose keys all carry the 7-character prefix, the
\* mapping given to load_state_dict has one entry per checkpoint entry, each
\* key the original without the prefix, each value unchanged; the load into
\* the unwrapped model of matching shape succeeds and the model then holds
\* that mapping.
C6_PrefixStripping ==
    \A p \in Procs :
        (Resumes(p) /\ AllPrefixed(Stored)) =>
            /\ IsStripped(StripKeys(Stored.model, <<>>), Stored)
            /\ SavedFromSameConfig(p, TRUE) => error[p] # Some("RuntimeError")
            /\ PastResume(p) => IsStripped(Get(model[p]).params, Stored)

\* C6 witness: the unwrapped model has just loaded a prefixed three-entry
\* checkpoint.
C6_Witness ==
    \E p \in Procs :
        /\ pc[p] = "train_device"
        /\ Resumes(p)
        /\ AllPrefixed(Stored)
        /\ ~Get(model[p]).wrapped
        /\ Len(Stored.model) = 3
        /\ Get(model[p]).params[Name_edge_b] = Stored.model[3][2]

UnknownOptimizer(p) == args[p].optimizer \notin {"sgd", "adam", "adamax", "rms"}

\* train() has failed after it has placed the model on its device, that is
\* after the checkpoint step: with an unknown optimizer name, in the lookup of
\* line 109.
FailedAtLookup(p) ==
    /\ pc[p] = "error"
    /\ model[p] # None
    /\ Get(model[p]).device # <<"cpu">>

\* C7 as claimed: with an optimizer name outside {sgd, adam, adamax, rms},
\* train() makes no harness epoch call, opens no metric writers, builds no
\* harness, and the failure of the lookup is a ConfigurationError.
C7_Original ==
    \A p \in Procs :
        UnknownOptimizer(p) =>
            /\ calls[p] = 0
            /\ tb_writer_main[p] = None /\ tb_writer_eval[p] = None
            /\ harness[p] = None
            /\ FailedAtLookup(p) => error[p] = Some("ConfigurationError")

\* C7 amended: with an optimizer name outside {sgd, adam, adamax, rms},
\* train() makes no harness epoch call, opens no metric writers, builds no
\* harness, binds no optimizer and no scheduler and gets no further than the
\* lookup of line 109; the lookup fails with the KeyError of the dictionary,
\* and by then the model is built and placed on its device, the batch size
\* is computed and a checkpoint named by model_state is loaded.
C7_UnknownOptimizerAborts ==
    \A p \in Procs :
        UnknownOptimizer(p) =>
            /\ calls[p] = 0
            /\ tb_writer_main[p] = None /\ tb_writer_eval[p] = None
            /\ harness[p] = None
            /\ opt[p] = None /\ scheduler[p] = None
            /\ pc[p] \notin {"train_writers", "train_harness", "train_loop",
                             "run_end", "done"}
            /\ FailedAtLookup(p) =>
                   /\ error[p] = Some("KeyError")
                   /\ batch_size[p] = PartitionBatch(args[p].batch_size,
                                                     dist_config[p])
                   /\ Resumes(p) =>
                          /\ epoch[p] = Stored.epoch
                          /\ global_step[p] = Stored.global_step
                          /\ IsStripped(Get(model[p]).params, Stored)

\* C7 witness: the leader's train() has loaded the checkpoint of epoch 1 and
\* has then ended with the lookup's KeyError.
C7_Witness ==
    \E p \in Procs :
        /\ LeaderRank(p)
        /\ UnknownOptimizer(p)
        /\ FailedAtLookup(p)
        /\ error[p] = Some("KeyError")
        /\ Resumes(p)
        /\ epoch[p] = 1
        /\ batch_size[p] > 0
        /\ harness[p] = None

\* C9 as claimed: no field of the caller's record is ever changed, and the
\* persisted record equals the configuration created from user input.
C9_Original ==
    /\ \A p \in Procs : args[p] = user_args
    /\ \A f \in fs_files : f.content = user_args

\* The user's configuration with its given path options made absolute.
ResolvedUserArgs ==
    [k \in DOMAIN user_args |->
        IF k \in {"output_dir", "dataset_train", "dataset_auxiliary", "dataset_test",
                  "model_state"} /\ user_args[k] # None
        THEN Some(Abspath(Get(user_args[k])))
        ELSE user_args[k]]

\* C9 amended: run() changes the caller's record once, in its first step: each
\* of output_dir, dataset_train, dataset_auxiliary, dataset_test, model_state
\* that is not None becomes its absolute path; no other field and nothing
\* later is changed by run() or train(), and the record the leader persists
\* is this resolved record.
C9_OnlyPathsResolved ==
    /\ \A p \in Procs :
           /\ args[p] = IF pc[p] = "run_start" THEN user_args ELSE ResolvedUserArgs
           /\ pc[p] # "run_start" =>
                  \A k \in {"output_dir", "dataset_train"} : IsAbs(Get(args[p][k]))
    /\ \A f \in fs_files : f.content = ResolvedUserArgs
    /\ user_args.output_dir = DefaultOutputDir =>
           ResolvedUserArgs.output_dir = Some(<<"/", "w", "output">>)

\* C9 witness: the run is over and the persisted record differs from the user's
\* input in output_dir, which was relative.
C9_Witness ==
    \E p \in Procs, f \in fs_files :
        /\ pc[p] = "done"
        /\ f.by = p
        /\ f.content # user_args
        /\ user_args.output_dir = DefaultOutputDir
        /\ f.content.output_dir = Some(<<"/", "w", "output">>)
        /\ f.content.num_epochs = user_args.num_epochs

\* The leader's configuration record is on disk, complete and closed.
ConfigOnDisk(p) ==
    /\ output_dir[p] # None
    /\ \E d \in fs_dirs : d.by = p /\ d.path = Get(output_dir[p])
    /\ \E f \in fs_files :
           /\ f.by = p
           /\ f.path = Get(output_dir[p]) \o <<"args.txt">>
           /\ f.closed
           /\ f.content = args[p]

PastOutputStep(p) == pc[p] \notin {"run_start", "run_datasets", "run_output"}

\* The leader's run has failed in os.makedirs: nothing of train() has run.
FailedInMakedirs(p) ==
    /\ pc[p] = "error"
    /\ model[p] = None

Sorted(l) == \A i, j \in 1..Len(l) : i < j => l[i] <= l[j]

DecayList == IF lr_decay = None THEN <<>> ELSE Get(lr_decay)

\* min((epoch + 1) / warmup_epochs, 1) * 0.1 ^ (thresholds <= epoch), in floats
ScheduleFormula(e, warmup_epochs, l) ==
    FloatMul(IF e + 1 >= warmup_epochs THEN FloatFromInt(1)
             ELSE IntTrueDiv(e + 1, warmup_epochs),
             FloatPow(Float_0_1, Cardinality({i \in 1..Len(l) : l[i] <= e})))

\* What C8 says of every call but the one at epoch 40: the returned float is
\* the formula's, it lies in (0, 1]; with warmup_epochs = 5 and thresholds
\* [20, 40] it does not increase from epoch 4 on and is 1.0 at epoch 4 and 0.1
\* at epoch 20; with warmup_epochs = 5 and no thresholds it is 0.2 at epoch 0.
ScheduleCommon ==
    (lr_pc = "returned" /\ Sorted(DecayList)) =>
        LET r == Get(lr_result)
        IN  /\ r = ScheduleFormula(lr_epoch, lr_warmup, DecayList)
            /\ r.m # <<>> /\ FloatLeq(r, FloatFromInt(1))
            /\ (lr_warmup = 5 /\ lr_decay = Some(<<20, 40>>)) =>
                   /\ lr_epoch >= 4 =>
                          FloatLeq(_lr_schedule(lr_epoch + 1, lr_warmup, lr_decay), r)
                   /\ lr_epoch = 4 => r = FloatFromInt(1)
                   /\ lr_epoch = 20 => r = IntTrueDiv(1, 10)
            /\ (lr_warmup = 5 /\ DecayList = <<>> /\ lr_epoch = 0) =>
                   r = IntTrueDiv(2, 10)

AtEpoch40 ==
    lr_pc = "returned" /\ lr_warmup = 5 /\ lr_decay = Some(<<20, 40>>) /\ lr_epoch = 40

\* C8 as claimed: _lr_schedule returns min((epoch + 1) / warmup_epochs, 1) *
\* 0.1 ^ (thresholds <= epoch), a value in (0, 1]; with warmup_epochs = 5 and
\* thresholds [20, 40] it is non-increasing from epoch 4 on, 1.0 at epoch 4,
\* 0.1 at epoch 20 and 0.01 at epoch 40; with no thresholds it is 0.2 at
\* epoch 0.
C8_Original ==
    /\ ScheduleCommon
    /\ AtEpoch40 => Get(lr_result) = IntTrueDiv(1, 100)

\* C8 amended: _lr_schedule returns, in double arithmetic,
\* min((epoch + 1) / warmup_epochs, 1) * 0.1 ** (thresholds <= epoch), a value
\* in (0, 1]; with warmup_epochs = 5 and thresholds [20, 40] it is
\* non-increasing from epoch 4 on, 1.0 at epoch 4, 0.1 at epoch 20, and at
\* epoch 40 it is the double 0.1 ** 2 = 0.010000000000000002, the double next
\* above 0.01; with no thresholds it is 0.2 at epoch 0.
C8_LrSchedule ==
    /\ ScheduleCommon
    /\ AtEpoch40 =>
           /\ Get(lr_result) = FloatPow(IntTrueDiv(1, 10), 2)
           /\ Get(lr_result).e = IntTrueDiv(1, 100).e
           /\ Get(lr_result).m = BigAdd(IntTrueDiv(1, 100).m, <<1>>, 0)

\* C8 witness: the call at epoch 40 has returned a float above 0.01 and below
\* the 0.1 of epoch 20.
C8_Witness ==
    /\ AtEpoch40
    /\ FloatLess(IntTrueDiv(1, 100), Get(lr_result))
    /\ FloatLess(Get(lr_result), IntTrueDiv(1, 10))

====
